---- MODULE Spec2Model ----
(***************************************************************************)
(* Model of src/extension.js: the FFHTML tree data provider, which merges  *)
(* the directories a .fccw project configuration names into one logical    *)
(* tree, and the create / delete commands that act on a selected node.     *)
(*                                                                         *)
(* A path is a sequence of names relative to the workspace root, so <<>>  *)
(* is the workspace root itself.  No tree node ever carries the workspace  *)
(* root as its resourceUri or _fccwPath, so <<>> also stands for an absent *)
(* (undefined) path field.  No name of the model is a string prefix of     *)
(* another top-level name, so String.startsWith on two joined paths is the *)
(* component-wise prefix test.                                             *)
(***************************************************************************)
EXTENDS Integers, Sequences, FiniteSets, Bags, TLC

VARIABLES
    fs,           \* the disk: existing path |-> "file" | "dir"
    cfg,          \* contents of each .fccw file: path |-> parsed JSON record
    dirOrder,     \* the order in which readdirSync lists names
    view,         \* result of the host's last getChildren() call from the root
    subView,      \* result of the host's last getChildren(configNode) call
    parsed,       \* .fccw files read (JSON.parse) since the last root getChildren()
    pending,      \* bag of the commands suspended at their prompt (showInputBox / showWarningMessage)
    refreshCount, \* number of times treeProvider.refresh() fired the change event
    nCmds,        \* number of commands invoked so far
    last,         \* what the last command that ran to its end did
    mergeRoots,   \* folder names of a direct call of _getFilesFromFolders
    mergeResult   \* what that call returned or threw

vars == <<fs, cfg, dirOrder, view, subView, parsed, pending, refreshCount, nCmds, last,
          mergeRoots, mergeResult>>

(***************************************************************************)
(* Bounds                                                                  *)
(***************************************************************************)
\* commands (reload / create / delete) invoked in one behaviour
MaxCmds == 2
\* physical roots handed to one direct call of _getFilesFromFolders
MaxRoots == 2

(***************************************************************************)
(* Paths and the disk                                                      *)
(***************************************************************************)
NoPath == <<>>

\* String.prototype.startsWith on joined paths
startsWith(p, q) == Len(q) <= Len(p) /\ SubSeq(p, 1, Len(q)) = q

\* path.dirname
dirname(p) == SubSeq(p, 1, Len(p) - 1)

\* path.basename
basename(p) == p[Len(p)]

\* path.relative(from, to) for `to` at or under `from`
relative(from, to) == SubSeq(to, Len(from) + 1, Len(to))

\* path.join
join(p, q) == p \o q

\* fs.existsSync
existsSync(f, p) == p = <<>> \/ p \in DOMAIN f

\* fs.statSync(p).isDirectory(), for an existing p
isDirectory(f, p) == p = <<>> \/ f[p] = "dir"

\* fs.readdirSync(p): the names of p's entries, in listing order
readdirSync(f, p) == SelectSeq(dirOrder, LAMBDA n : Append(p, n) \in DOMAIN f)

(***************************************************************************)
(* Tree nodes (vscode.TreeItem with the fields the extension adds)         *)
(***************************************************************************)
TreeItem(lbl, collapsed) ==
    [label |-> lbl, collapsible |-> collapsed, resourceUri |-> NoPath,
     command |-> FALSE, hasChildren |-> FALSE, children |-> <<>>,
     hasMergePaths |-> FALSE, mergePaths |-> <<>>, fccwPath |-> NoPath]

\* a thrown exception or a returned sequence of nodes
Throw(e) == [err |-> e, nodes |-> <<>>]
Return(ns) == [err |-> "none", nodes |-> ns]

\* index of the item labelled n in the insertion-ordered Map, 0 if absent
MapIndex(merged, n) ==
    IF \E i \in 1..Len(merged) : merged[i].label = n
    THEN CHOOSE i \in 1..Len(merged) : merged[i].label = n
    ELSE 0

(***************************************************************************)
(* _getFilesFromFolders                                                    *)
(***************************************************************************)
\* ScanEntry with the canonical path overwritten by each later directory
ScanEntry_LaterRootWins(f, acc, folderPath, n) ==
    LET filePath == Append(folderPath, n)
        isDir == isDirectory(f, filePath)
        i == MapIndex(acc.nodes, n)
    IN  IF acc.err # "none" THEN acc
        ELSE IF i # 0
        THEN IF isDir
             THEN IF acc.nodes[i].hasMergePaths
                  THEN Return([acc.nodes EXCEPT ![i].mergePaths = Append(@, filePath),
                                                ![i].resourceUri = filePath])
                  ELSE Throw("TypeError")
             ELSE acc
        ELSE Return(Append(acc.nodes,
                 [TreeItem(n, isDir) EXCEPT
                     !.resourceUri = filePath,
                     !.command = ~isDir,
                     !.hasMergePaths = isDir,
                     !.mergePaths = IF isDir THEN <<filePath>> ELSE <<>>]))

\* the body of files.forEach for one entry f of folderPath (lines 203-225);
\* acc is the Map so far, or the exception already thrown
ScanEntry(f, acc, folderPath, n) ==
    LET filePath == Append(folderPath, n)
        isDir == isDirectory(f, filePath)
        i == MapIndex(acc.nodes, n)
    IN  IF acc.err # "none" THEN acc
        ELSE IF i # 0
        THEN IF isDir
             THEN IF acc.nodes[i].hasMergePaths
                  THEN Return([acc.nodes EXCEPT ![i].mergePaths = Append(@, filePath)])
                  ELSE Throw("TypeError")   \* undefined._mergePaths.push
             ELSE acc
        ELSE Return(Append(acc.nodes,
                 [TreeItem(n, isDir) EXCEPT
                     !.resourceUri = filePath,
                     !.command = ~isDir,
                     !.hasMergePaths = isDir,
                     !.mergePaths = IF isDir THEN <<filePath>> ELSE <<>>]))

RECURSIVE ScanFiles(_, _, _, _)
ScanFiles(f, acc, folderPath, files) ==
    IF files = <<>> THEN acc
    ELSE ScanFiles(f, ScanEntry(f, acc, folderPath, Head(files)), folderPath, Tail(files))

\* the body of folderNames.forEach for one folder (lines 197-226); a folder
\* name that is falsy is the empty path here
ScanFolder(f, acc, folderPath) ==
    IF acc.err # "none" THEN acc
    ELSE IF folderPath = NoPath THEN acc
    ELSE IF ~existsSync(f, folderPath) THEN acc
    ELSE IF ~isDirectory(f, folderPath) THEN Throw("ENOTDIR")
    ELSE ScanFiles(f, acc, folderPath, readdirSync(f, folderPath))

RECURSIVE ScanFolders(_, _, _)
ScanFolders(f, acc, folders) ==
    IF folders = <<>> THEN acc
    ELSE ScanFolders(f, ScanFolder(f, acc, Head(folders)), Tail(folders))

RECURSIVE getFilesFromFolders(_, _)
RECURSIVE ExpandItems(_, _, _)
\* the loop over merged.values() (lines 229-235)
ExpandItems(f, items, done) ==
    IF items = <<>> THEN Return(done)
    ELSE LET item == Head(items)
         IN  IF item.hasMergePaths
             THEN LET children == getFilesFromFolders(f, item.mergePaths)
                  IN  IF children.err # "none" THEN children
                      ELSE ExpandItems(f, Tail(items),
                               Append(done, [item EXCEPT !.hasMergePaths = FALSE,
                                                         !.mergePaths = <<>>,
                                                         !.hasChildren = TRUE,
                                                         !.children = children.nodes]))
             ELSE ExpandItems(f, Tail(items), Append(done, item))

\* _getFilesFromFolders(folderNames, isFullPath): folders are full paths
getFilesFromFolders(f, folders) ==
    LET merged == ScanFolders(f, Return(<<>>), folders)
    IN  IF merged.err # "none" THEN merged
        ELSE ExpandItems(f, merged.nodes, <<>>)

(***************************************************************************)
(* The provider's directories (constructor) and the configuration          *)
(***************************************************************************)
\* this.sourceDirectory, this.includeDirectory, this.resourcesDirectory
sourceDirectory == <<"web-src">>
includeDirectory == <<"include">>
resourcesDirectory == <<"res">>

\* names ending in '.fccw'
endsWithFccw(n) == n \in {"p.fccw", "q.fccw"}

\* path.join(this.workspaceRoot, folderName); a falsy folder name stays falsy
FolderPath(folderName) == IF folderName = "" THEN NoPath ELSE <<folderName>>

\* _getFilesFromFolders(folderNames) with isFullPath = false
getFilesFromFolderNames(f, folderNames) ==
    getFilesFromFolders(f, [i \in 1..Len(folderNames) |-> FolderPath(folderNames[i])])

\* _getFoldersFromConfig(json)
getFoldersFromConfig(f, json) ==
    LET combined == IF json.sourceDirectory # "" \/ json.resourcesDirectory # ""
                    THEN getFilesFromFolderNames(f, <<json.sourceDirectory, json.resourcesDirectory>>)
                    ELSE Return(<<>>)
        includes == IF json.includeDirectory # ""
                    THEN getFilesFromFolderNames(f, <<json.includeDirectory>>)
                    ELSE Return(<<>>)
        s1 == IF json.sourceDirectory # "" \/ json.resourcesDirectory # ""
              THEN <<[TreeItem("Combined source", TRUE) EXCEPT
                         !.hasChildren = TRUE, !.children = combined.nodes]>>
              ELSE <<>>
        s2 == IF json.includeDirectory # ""
              THEN <<[TreeItem("Includes", TRUE) EXCEPT
                         !.hasChildren = TRUE, !.children = includes.nodes]>>
              ELSE <<>>
    IN  IF combined.err # "none" THEN combined
        ELSE IF includes.err # "none" THEN includes
        ELSE Return(s1 \o s2)

RECURSIVE findFCCWFiles(_, _)
RECURSIVE FindInItems(_, _, _)
\* the loop over the entries of dir (lines 163-170)
FindInItems(f, dir, items) ==
    IF items = <<>> THEN <<>>
    ELSE LET fullPath == Append(dir, Head(items))
             here == IF ~isDirectory(f, fullPath) /\ endsWithFccw(Head(items))
                     THEN <<fullPath>>
                     ELSE IF isDirectory(f, fullPath) THEN findFCCWFiles(f, fullPath)
                     ELSE <<>>
         IN  here \o FindInItems(f, dir, Tail(items))

\* _findFCCWFiles(dir)
findFCCWFiles(f, dir) == FindInItems(f, dir, readdirSync(f, dir))

\* JSON.parse(fs.readFileSync(path)) followed by _getFoldersFromConfig
ReadConfig(f, c, path) ==
    IF ~existsSync(f, path) THEN Throw("ENOENT")
    ELSE getFoldersFromConfig(f, c[path])

\* getChildren() with no element (lines 129-148)
getChildrenRoot(f, c) ==
    LET fccwFiles == findFCCWFiles(f, <<>>)
    IN  IF Len(fccwFiles) = 0
        THEN Return(<<TreeItem("No .fccw workspace found", FALSE)>>)
        ELSE IF Len(fccwFiles) = 1
        THEN ReadConfig(f, c, fccwFiles[1])
        ELSE Return([i \in 1..Len(fccwFiles) |->
                 [TreeItem(basename(fccwFiles[i]), TRUE) EXCEPT !.fccwPath = fccwFiles[i]]])

\* the .fccw files getChildren() reads when called with no element
RootReads(f) ==
    LET fccwFiles == findFCCWFiles(f, <<>>)
    IN  IF Len(fccwFiles) = 1 THEN {fccwFiles[1]} ELSE {}

\* getChildren(element) for an element (lines 150-157)
getChildrenOf(f, c, element) ==
    IF element.fccwPath # NoPath THEN ReadConfig(f, c, element.fccwPath)
    ELSE IF element.hasChildren THEN Return(element.children)
    ELSE Return(<<>>)

RECURSIVE NodeSet(_)
\* every node of a tree, at any depth
NodeSet(nodes) ==
    UNION {{nodes[i]} \cup NodeSet(nodes[i].children) : i \in 1..Len(nodes)}

(***************************************************************************)
(* Filesystem calls of the commands                                        *)
(***************************************************************************)
Prefixes(p) == {SubSeq(p, 1, k) : k \in 1..Len(p)}

\* fs.mkdirSync(dir, {recursive: true}) throws when a component is a file
mkdirFails(f, dir) == \E q \in Prefixes(dir) : q \in DOMAIN f /\ f[q] = "file"

mkdirSync(f, dir) ==
    [q \in DOMAIN f \cup Prefixes(dir) |-> IF q \in DOMAIN f THEN f[q] ELSE "dir"]

\* a file name longer than the file system allows (write fails: ENAMETOOLONG)
LongName == "<long name>"

\* fs.writeFileSync(p, '') throws on a directory (EISDIR) or a rejected name
writeFails(f, p) == basename(p) = LongName \/ (p \in DOMAIN f /\ f[p] = "dir")

writeFileSync(f, p) == [q \in DOMAIN f \cup {p} |-> IF q = p THEN "file" ELSE f[q]]

\* rmdirSync that removes the directory entry and leaves what is under it
rmdirSync_KeepsDescendants(f, p) == [q \in DOMAIN f \ {p} |-> f[q]]

\* fs.rmdirSync(p, {recursive: true})
rmdirSync(f, p) == [q \in {r \in DOMAIN f : ~startsWith(r, p)} |-> f[q]]

\* fs.unlinkSync(p)
unlinkSync(f, p) == [q \in DOMAIN f \ {p} |-> f[q]]

(***************************************************************************)
(* createFilePrompt: the target directory (lines 53-78)                    *)
(***************************************************************************)
BaseDir(type) ==
    IF type = "resource" THEN resourcesDirectory
    ELSE IF type = "source" THEN sourceDirectory
    ELSE includeDirectory

\* lines 64-67; NoPath is null
ElementTypeDir(uri) ==
    IF startsWith(uri, sourceDirectory) THEN sourceDirectory
    ELSE IF startsWith(uri, resourcesDirectory) THEN resourcesDirectory
    ELSE IF startsWith(uri, includeDirectory) THEN includeDirectory
    ELSE NoPath

\* lines 58-78, for an element whose path exists (statSync did not throw)
TargetDir(f, uri, type) ==
    IF uri = NoPath THEN BaseDir(type)
    ELSE LET elementDir == IF isDirectory(f, uri) THEN uri ELSE dirname(uri)
         IN  IF ElementTypeDir(uri) # NoPath
             THEN join(BaseDir(type), relative(ElementTypeDir(uri), elementDir))
             ELSE elementDir

(***************************************************************************)
(* Initial workspaces                                                      *)
(***************************************************************************)
\* the two listing orders readdirSync may use over the model's names
AlphabeticOrder == <<"a", "assets", "include", "p.fccw", "q.fccw", "res", "sub", "web-src", "z">>
NameOrders ==
    { AlphabeticOrder,
      <<"z", "web-src", "sub", "res", "q.fccw", "p.fccw", "include", "assets", "a">> }

\* contents of a category root, relative to it (<<>> is the root itself)
Absent    == {}
OnlyRoot  == { <<NoPath, "dir">> }
FileA     == OnlyRoot \cup { << <<"a">>, "file" >> }
DirA      == OnlyRoot \cup { << <<"a">>, "dir" >> }
DirAFileZ == DirA \cup { << <<"a", "z">>, "file" >>, << <<"z">>, "file" >> }
DirADirZ  == DirA \cup { << <<"a", "z">>, "dir" >> }
FileZ     == OnlyRoot \cup { << <<"z">>, "file" >> }

Place(root, content) == { << join(root, x[1]), x[2] >> : x \in content }

MkFs(entries) == [q \in {x[1] : x \in entries} |-> (CHOOSE x \in entries : x[1] = q)[2]]

\* the JSON of a configuration; "" is an absent field
DefaultConfig ==
    [sourceDirectory |-> "web-src", resourcesDirectory |-> "res", includeDirectory |-> "include"]
OverrideConfig ==
    [sourceDirectory |-> "assets", resourcesDirectory |-> "res", includeDirectory |-> ""]

\* the .fccw files of a workspace and what each holds; src is the directory
\* that holds its sources
NoConfigs  == [files |-> {}, src |-> "web-src"]
OneDefault == [files |-> { << <<"p.fccw">>, DefaultConfig >> }, src |-> "web-src"]
OneOverride == [files |-> { << <<"p.fccw">>, OverrideConfig >> }, src |-> "assets"]
TwoConfigs ==
    [files |-> { << <<"p.fccw">>, DefaultConfig >>, << <<"sub", "q.fccw">>, OverrideConfig >> },
     src |-> "web-src"]

Workspaces == {NoConfigs, OneDefault, OneOverride, TwoConfigs}

ConfigEntries(w) ==
    { << x[1], "file" >> : x \in w.files }
    \cup { << dirname(x[1]), "dir" >> : x \in {y \in w.files : Len(y[1]) > 1} }

\* the disk of workspace w with the given source, resources and include contents
Disk(w, s, r, i) ==
    MkFs(ConfigEntries(w) \cup Place(<<w.src>>, s)
         \cup Place(<<"res">>, r) \cup Place(<<"include">>, i))

Configs(w) == [q \in {x[1] : x \in w.files} |-> (CHOOSE x \in w.files : x[1] = q)[2]]

\* what a command did: the element and type it was invoked with, what its prompt
\* answered, whether statSync found a directory, the path it acted on
NoCommand ==
    [op |-> "none", outcome |-> "none", type |-> "", uri |-> NoPath, answer |-> "",
     isDir |-> FALSE, target |-> NoPath]

\* _getFilesFromFolders has not been called on its own
NotCalled == [err |-> "not called", nodes |-> <<>>]

\* the folder names a configuration can hand to _getFilesFromFolders
RootNames == {"", "web-src", "res", "include", "assets"}

FolderNameLists == UNION {[1..n -> RootNames] : n \in 1..MaxRoots}

\* the state after construction, whatever the disk holds
Constructed ==
    /\ view = Return(<<>>)
    /\ subView = Return(<<>>)
    /\ parsed = {}
    /\ pending = EmptyBag
    /\ refreshCount = 0
    /\ nCmds = 0
    /\ last = NoCommand
    /\ mergeResult = NotCalled

\* workspaces the commands start from
Scenarios ==
    { <<OneDefault, DirAFileZ, DirA, FileZ>>,      \* "a" a directory of both roots
      <<OneDefault, DirAFileZ, FileA, Absent>>,    \* "a" a directory of the first root, a file of the second
      <<OneDefault, Absent, DirADirZ, FileZ>>,     \* no source root
      <<OneOverride, DirA, DirA, FileZ>>,          \* the sources are in "assets"
      <<TwoConfigs, DirAFileZ, DirA, FileZ>>,
      <<NoConfigs, DirAFileZ, FileA, Absent>> }

Init ==
    /\ \E x \in Scenarios :
          /\ fs = Disk(x[1], x[2], x[3], x[4])
          /\ cfg = Configs(x[1])
    /\ dirOrder = AlphabeticOrder
    /\ mergeRoots = <<>>
    /\ Constructed

\* every disk the tree is built from
RootContents == {Absent, FileA, DirA, DirAFileZ, DirADirZ}

TreeInit ==
    /\ \E w \in Workspaces, s \in RootContents, r \in RootContents, i \in {Absent, DirAFileZ} :
          /\ fs = Disk(w, s, r, i)
          /\ cfg = Configs(w)
    /\ dirOrder \in NameOrders
    /\ mergeRoots \in FolderNameLists
    /\ Constructed

(***************************************************************************)
(* The host asks for children                                              *)
(***************************************************************************)
GetChildrenRoot ==
    /\ view' = getChildrenRoot(fs, cfg)
    /\ subView' = Return(<<>>)
    /\ parsed' = RootReads(fs)
    /\ UNCHANGED <<fs, cfg, dirOrder, pending, refreshCount, nCmds, last, mergeRoots, mergeResult>>

GetChildrenNode ==
    \E i \in 1..Len(view.nodes) :
        LET element == view.nodes[i]
        IN  /\ element.fccwPath # NoPath
            /\ subView' = getChildrenOf(fs, cfg, element)
            /\ parsed' = IF element.fccwPath # NoPath /\ existsSync(fs, element.fccwPath)
                         THEN parsed \cup {element.fccwPath}
                         ELSE parsed
            /\ UNCHANGED <<fs, cfg, dirOrder, view, pending, refreshCount, nCmds, last, mergeRoots, mergeResult>>

\* the resourceUri of a node the user can select, or NoPath (no node, or a
\* node without a resourceUri)
Selectable ==
    {NoPath} \cup {n.resourceUri : n \in NodeSet(view.nodes) \cup NodeSet(subView.nodes)}

(***************************************************************************)
(* Commands                                                                *)
(***************************************************************************)
\* ffhtmlView.reload
Reload ==
    /\ nCmds < MaxCmds
    /\ nCmds' = nCmds + 1
    /\ refreshCount' = refreshCount + 1
    /\ last' = [NoCommand EXCEPT !.op = "reload", !.outcome = "refreshed"]
    /\ UNCHANGED <<fs, cfg, dirOrder, view, subView, parsed, pending, mergeRoots, mergeResult>>

\* createFilePrompt up to its await (line 50)
CreateInvoke ==
    \E uri \in Selectable, type \in {"resource", "source", "include"} :
        /\ nCmds < MaxCmds
        /\ nCmds' = nCmds + 1
        /\ pending' = pending (+) SetToBag({[cmd |-> "create", type |-> type, uri |-> uri]})
        /\ UNCHANGED <<fs, cfg, dirOrder, view, subView, parsed, refreshCount, last,
                       mergeRoots, mergeResult>>

\* createFilePrompt creating the category root before it looks at the element
CreateOutcome_MkdirFirst(f, uri, type, fileName) ==
    IF fileName = "" THEN [outcome |-> "cancelled", fs |-> f, target |-> NoPath]
    ELSE IF mkdirFails(f, BaseDir(type))
    THEN [outcome |-> "EMKDIR", fs |-> f, target |-> BaseDir(type)]
    ELSE IF uri # NoPath /\ ~existsSync(f, uri)
    THEN [outcome |-> "ENOENT", fs |-> mkdirSync(f, BaseDir(type)), target |-> NoPath]
    ELSE LET targetPath == join(TargetDir(f, uri, type), <<fileName>>)
         IN  IF mkdirFails(f, dirname(targetPath))
             THEN [outcome |-> "EMKDIR", fs |-> mkdirSync(f, BaseDir(type)), target |-> targetPath]
             ELSE IF writeFails(mkdirSync(f, dirname(targetPath)), targetPath)
             THEN [outcome |-> "EWRITE", fs |-> mkdirSync(f, dirname(targetPath)),
                   target |-> targetPath]
             ELSE [outcome |-> "created",
                   fs |-> writeFileSync(mkdirSync(f, dirname(targetPath)), targetPath),
                   target |-> targetPath]

\* what createFilePrompt does once the input box has answered (lines 51-84)
CreateOutcome(f, uri, type, fileName) ==
    IF fileName = "" THEN [outcome |-> "cancelled", fs |-> f, target |-> NoPath]
    ELSE IF uri # NoPath /\ ~existsSync(f, uri)
    THEN [outcome |-> "ENOENT", fs |-> f, target |-> NoPath]
    ELSE LET targetPath == join(TargetDir(f, uri, type), <<fileName>>)
         IN  IF mkdirFails(f, dirname(targetPath))
             THEN [outcome |-> "EMKDIR", fs |-> f, target |-> targetPath]
             ELSE IF writeFails(mkdirSync(f, dirname(targetPath)), targetPath)
             THEN [outcome |-> "EWRITE", fs |-> mkdirSync(f, dirname(targetPath)),
                   target |-> targetPath]
             ELSE [outcome |-> "created",
                   fs |-> writeFileSync(mkdirSync(f, dirname(targetPath)), targetPath),
                   target |-> targetPath]

FileNames == {"", "z", LongName}

CreateAnswer ==
    \E c \in BagToSet(pending), fileName \in FileNames :
        LET r == CreateOutcome(fs, c.uri, c.type, fileName)
        IN  /\ c.cmd = "create"
            /\ pending' = pending (-) SetToBag({c})
            /\ fs' = r.fs
            /\ refreshCount' = IF r.outcome = "created" THEN refreshCount + 1 ELSE refreshCount
            /\ last' = IF fileName = ""
                       THEN [NoCommand EXCEPT !.op = "create", !.outcome = r.outcome]
                       ELSE [op |-> "create", outcome |-> r.outcome, type |-> c.type,
                             uri |-> c.uri, answer |-> fileName,
                             isDir |-> c.uri # NoPath /\ existsSync(fs, c.uri)
                                       /\ isDirectory(fs, c.uri),
                             target |-> r.target]
            /\ UNCHANGED <<cfg, dirOrder, view, subView, parsed, nCmds, mergeRoots, mergeResult>>

\* deleteFilePrompt up to its await (lines 88-94)
DeleteInvoke ==
    \E uri \in Selectable :
        /\ nCmds < MaxCmds
        /\ nCmds' = nCmds + 1
        /\ pending' = IF uri = NoPath THEN pending
                      ELSE pending (+) SetToBag({[cmd |-> "delete", type |-> "", uri |-> uri]})
        /\ last' = IF uri = NoPath
                   THEN [NoCommand EXCEPT !.op = "delete", !.outcome = "cancelled"]
                   ELSE last
        /\ UNCHANGED <<fs, cfg, dirOrder, view, subView, parsed, refreshCount, mergeRoots, mergeResult>>

\* deleteFilePrompt without the test of the confirmation
DeleteOutcome_IgnoresAnswer(f, uri, confirm) ==
    IF ~existsSync(f, uri) THEN [outcome |-> "ENOENT", fs |-> f]
    ELSE IF isDirectory(f, uri) THEN [outcome |-> "deleted", fs |-> rmdirSync(f, uri)]
    ELSE [outcome |-> "deleted", fs |-> unlinkSync(f, uri)]

\* what deleteFilePrompt does once the warning has answered (lines 95-105)
DeleteOutcome(f, uri, confirm) ==
    IF confirm # "Delete" THEN [outcome |-> "cancelled", fs |-> f]
    ELSE IF ~existsSync(f, uri) THEN [outcome |-> "ENOENT", fs |-> f]
    ELSE IF isDirectory(f, uri) THEN [outcome |-> "deleted", fs |-> rmdirSync(f, uri)]
    ELSE [outcome |-> "deleted", fs |-> unlinkSync(f, uri)]

DeleteAnswer ==
    \E c \in BagToSet(pending), confirm \in {"Delete", "undefined"} :
        LET r == DeleteOutcome(fs, c.uri, confirm)
        IN  /\ c.cmd = "delete"
            /\ pending' = pending (-) SetToBag({c})
            /\ fs' = r.fs
            /\ refreshCount' = IF r.outcome = "deleted" THEN refreshCount + 1 ELSE refreshCount
            /\ last' = IF confirm # "Delete"
                       THEN [NoCommand EXCEPT !.op = "delete", !.outcome = r.outcome,
                                              !.answer = confirm]
                       ELSE [op |-> "delete", outcome |-> r.outcome, type |-> "",
                             uri |-> c.uri, answer |-> confirm,
                             isDir |-> existsSync(fs, c.uri) /\ isDirectory(fs, c.uri),
                             target |-> c.uri]
            /\ UNCHANGED <<cfg, dirOrder, view, subView, parsed, nCmds, mergeRoots, mergeResult>>

(***************************************************************************)
(* _getFilesFromFolders called on its own                                  *)
(***************************************************************************)
\* _getFilesFromFolders(folderNames) called with the folder names drawn at the start
MergeFolders ==
    /\ mergeResult = NotCalled
    /\ mergeRoots # <<>>
    /\ mergeResult' = getFilesFromFolderNames(fs, mergeRoots)
    /\ UNCHANGED <<fs, cfg, dirOrder, view, subView, parsed, pending, refreshCount,
                   nCmds, last, mergeRoots>>

Next ==
    \/ GetChildrenRoot
    \/ GetChildrenNode
    \/ Reload
    \/ CreateInvoke
    \/ CreateAnswer
    \/ DeleteInvoke
    \/ DeleteAnswer

Spec == Init /\ [][Next]_vars

\* the tree alone, over every disk
TreeNext ==
    \/ GetChildrenRoot
    \/ GetChildrenNode
    \/ MergeFolders

TreeSpec == TreeInit /\ [][TreeNext]_vars

(***************************************************************************)
(* Properties of _getFilesFromFolders (under TreeSpec)                     *)
(***************************************************************************)
Names == {AlphabeticOrder[k] : k \in 1..Len(AlphabeticOrder)}

\* the physical roots of the direct call, in the order supplied
RootPaths == [k \in 1..Len(mergeRoots) |-> FolderPath(mergeRoots[k])]

\* root p holds an entry named n / holds n as a directory / as a file
Holds(p, n) == p # NoPath /\ Append(p, n) \in DOMAIN fs
HoldsDir(p, n) == Holds(p, n) /\ fs[Append(p, n)] = "dir"
HoldsFile(p, n) == Holds(p, n) /\ fs[Append(p, n)] = "file"

NodesNamed(nodes, n) == {k \in 1..Len(nodes) : nodes[k].label = n}

\* C1: when the first root that holds N holds it as a file and a later root holds
\* N as a directory, the merge completes normally and returns exactly one node
\* named N: the terminal file node of the earlier root, with no children.
C1_FileWinsSilently ==
    \A n \in Names, i \in 1..Len(mergeRoots), j \in 1..Len(mergeRoots) :
        ( /\ mergeResult # NotCalled
          /\ i < j
          /\ HoldsFile(RootPaths[i], n)
          /\ \A h \in 1..(i - 1) : ~Holds(RootPaths[h], n)
          /\ HoldsDir(RootPaths[j], n) )
        => /\ mergeResult.err = "none"
           /\ Cardinality(NodesNamed(mergeResult.nodes, n)) = 1
           /\ \A k \in NodesNamed(mergeResult.nodes, n) :
                 /\ mergeResult.nodes[k].resourceUri = Append(RootPaths[i], n)
                 /\ ~mergeResult.nodes[k].collapsible
                 /\ ~mergeResult.nodes[k].hasChildren
                 /\ mergeResult.nodes[k].children = <<>>

\* the paths Ri/N of the roots that hold N as a directory, in root order
Contributing(roots, n) ==
    LET idx == SelectSeq([k \in 1..Len(roots) |-> k], LAMBDA k : HoldsDir(roots[k], n))
    IN  [k \in 1..Len(idx) |-> Append(roots[idx[k]], n)]

\* C2: a name N that is a directory in two or more of the roots comes back as
\* exactly one node, whose children are the merge of the contributing paths
\* Ri/N taken in root order.
C2_DirectoriesMerge ==
    \A n \in Names :
        (mergeResult # NotCalled /\ Len(Contributing(RootPaths, n)) >= 2)
        => /\ mergeResult.err = "none"
           /\ Cardinality(NodesNamed(mergeResult.nodes, n)) = 1
           /\ \A k \in NodesNamed(mergeResult.nodes, n) :
                 /\ getFilesFromFolders(fs, Contributing(RootPaths, n)).err = "none"
                 /\ mergeResult.nodes[k].hasChildren
                 /\ mergeResult.nodes[k].children
                        = getFilesFromFolders(fs, Contributing(RootPaths, n)).nodes

\* the roots a merge scans: those that exist
Scanned(roots) == SelectSeq(roots, LAMBDA p : p # NoPath /\ existsSync(fs, p))

RECURSIVE Discovery(_, _)
\* the names of the roots' entries in first-discovery order
Discovery(roots, seen) ==
    IF roots = <<>> THEN seen
    ELSE Discovery(Tail(roots),
             seen \o SelectSeq(readdirSync(fs, Head(roots)),
                               LAMBDA n : \A k \in 1..Len(seen) : seen[k] # n))

FirstRootWith(roots, n) == roots[CHOOSE k \in 1..Len(roots) :
                                    /\ Holds(roots[k], n)
                                    /\ \A h \in 1..(k - 1) : ~Holds(roots[h], n)]

RECURSIVE FirstRootWins(_, _)
\* every node of the tree merged from roots sits at the first root that holds
\* its name, and the nodes come in first-discovery order, at every level
FirstRootWins(roots, nodes) ==
    /\ [k \in 1..Len(nodes) |-> nodes[k].label] = Discovery(Scanned(roots), <<>>)
    /\ \A k \in 1..Len(nodes) :
          /\ nodes[k].resourceUri = Append(FirstRootWith(Scanned(roots), nodes[k].label),
                                           nodes[k].label)
          /\ nodes[k].hasChildren
                => FirstRootWins(Contributing(roots, nodes[k].label), nodes[k].children)

\* C7: in every tree the merge returns, a node's canonical path is Ri/N for the
\* first root Ri, in the order supplied, that holds an entry named N, and the
\* nodes are in first-discovery order.
C7_FirstRootIsCanonical ==
    mergeResult.err = "none" => FirstRootWins(RootPaths, mergeResult.nodes)

\* a merge returned a node whose name two different roots hold, the later one
\* not being the canonical one, beside a node of another name
C7_Witness ==
    /\ mergeResult.err = "none"
    /\ Len(mergeResult.nodes) >= 2
    /\ Len(mergeRoots) = 2
    /\ RootPaths[1] # RootPaths[2]
    /\ \E k \in 1..Len(mergeResult.nodes) :
          /\ Holds(RootPaths[1], mergeResult.nodes[k].label)
          /\ Holds(RootPaths[2], mergeResult.nodes[k].label)
          /\ mergeResult.nodes[k].resourceUri = Append(RootPaths[1], mergeResult.nodes[k].label)
          /\ Len(mergeResult.nodes[k].children) >= 1

(***************************************************************************)
(* Properties of getChildren (under TreeSpec)                              *)
(***************************************************************************)
\* the .fccw files under the workspace root
FccwFilesOnDisk == {q \in DOMAIN fs : fs[q] = "file" /\ endsWithFccw(basename(q))}

\* the sections a configuration has
SectionLabels(json) ==
    (IF json.sourceDirectory # "" \/ json.resourcesDirectory # ""
     THEN <<"Combined source">> ELSE <<>>)
    \o (IF json.includeDirectory # "" THEN <<"Includes">> ELSE <<>>)

IsSectionsOf(result, json) ==
    /\ result.err = "none"
    /\ [k \in 1..Len(result.nodes) |-> result.nodes[k].label] = SectionLabels(json)
    /\ \A k \in 1..Len(result.nodes) :
          /\ result.nodes[k].hasChildren
          /\ result.nodes[k].resourceUri = NoPath
          /\ result.nodes[k].fccwPath = NoPath

\* C8: once getChildren() was called from the root: with no .fccw file it
\* returned one informational leaf (no command, no path, no children); with one,
\* that configuration's sections; with two or more, one collapsed node per
\* file, labelled by the file name, none parsed until a node is expanded, and
\* expanding a node returns the sections of its configuration.
C8_RootByConfigCount ==
    view # Return(<<>>) =>
        /\ Cardinality(FccwFilesOnDisk) = 0 =>
              /\ view.err = "none"
              /\ Len(view.nodes) = 1
              /\ \A k \in 1..Len(view.nodes) :
                    view.nodes[k] = TreeItem("No .fccw workspace found", FALSE)
        /\ Cardinality(FccwFilesOnDisk) = 1 =>
              \A q \in FccwFilesOnDisk : IsSectionsOf(view, cfg[q])
        /\ Cardinality(FccwFilesOnDisk) >= 2 =>
              /\ view.err = "none"
              /\ Len(view.nodes) = Cardinality(FccwFilesOnDisk)
              /\ {view.nodes[k].fccwPath : k \in 1..Len(view.nodes)} = FccwFilesOnDisk
              /\ \A k \in 1..Len(view.nodes) :
                    /\ view.nodes[k].label = basename(view.nodes[k].fccwPath)
                    /\ view.nodes[k].collapsible
                    /\ ~view.nodes[k].hasChildren
              /\ subView = Return(<<>>) => parsed = {}
              /\ subView # Return(<<>>) => \E q \in parsed : IsSectionsOf(subView, cfg[q])

(***************************************************************************)
(* Properties of the commands (under Spec)                                 *)
(***************************************************************************)
\* the project configuration, in a workspace that has exactly one
OneConfig == Cardinality(DOMAIN cfg) = 1
ProjectConfig == cfg[CHOOSE q \in DOMAIN cfg : TRUE]

\* the category root the configuration names for a type of file
ConfiguredRoot(json, type) ==
    IF type = "resource" THEN FolderPath(json.resourcesDirectory)
    ELSE IF type = "source" THEN FolderPath(json.sourceDirectory)
    ELSE FolderPath(json.includeDirectory)

Under(uri, root) == root # NoPath /\ startsWith(uri, root)

\* the configured category root a path lies under, NoPath if none
ConfiguredRootOf(json, uri) ==
    IF Under(uri, ConfiguredRoot(json, "source")) THEN ConfiguredRoot(json, "source")
    ELSE IF Under(uri, ConfiguredRoot(json, "resource")) THEN ConfiguredRoot(json, "resource")
    ELSE IF Under(uri, ConfiguredRoot(json, "include")) THEN ConfiguredRoot(json, "include")
    ELSE NoPath

\* the directory of the element the last command was invoked with
ElementDir == IF last.isDir THEN last.uri ELSE dirname(last.uri)

\* C3: with a selected node under one of the configured category roots, the
\* target directory is the requested category's configured root joined with the
\* path of the node's directory relative to the node's own category root.
C3_MirrorsUnderConfiguredRoot ==
    ( /\ OneConfig
      /\ last.op = "create"
      /\ last.outcome \in {"created", "EWRITE", "EMKDIR"}
      /\ last.uri # NoPath
      /\ ConfiguredRootOf(ProjectConfig, last.uri) # NoPath
      /\ ConfiguredRoot(ProjectConfig, last.type) # NoPath )
    => dirname(last.target)
          = join(ConfiguredRoot(ProjectConfig, last.type),
                 relative(ConfiguredRootOf(ProjectConfig, last.uri), ElementDir))

\* C4: with no selected node, the new file is created directly in the root the
\* configuration names for the requested category.
C4_NoNodeTargetsConfiguredRoot ==
    ( /\ OneConfig
      /\ last.op = "create"
      /\ last.outcome = "created"
      /\ last.uri = NoPath
      /\ ConfiguredRoot(ProjectConfig, last.type) # NoPath )
    => /\ last.target = Append(ConfiguredRoot(ProjectConfig, last.type), last.answer)
       /\ last.target \in DOMAIN fs
       /\ fs[last.target] = "file"

RECURSIVE NodeAt(_, _)
\* the nodes at a logical position (a path of labels) of a tree
NodeAt(nodes, path) ==
    IF path = <<>> THEN {}
    ELSE IF Len(path) = 1 THEN {nodes[k] : k \in NodesNamed(nodes, path[1])}
    ELSE UNION {NodeAt(nodes[k].children, Tail(path)) : k \in NodesNamed(nodes, path[1])}

SectionOf(type) == IF type = "include" THEN "Includes" ELSE "Combined source"

\* C6: after a create command has written its file, the tree rebuilt from the
\* same configuration has a file node of that name in the section of the
\* requested category, under the sub-path mirrored from the selected node.
C6_CreatedFileIsInTree ==
    ( /\ OneConfig
      /\ last.op = "create"
      /\ last.outcome = "created"
      /\ ConfiguredRoot(ProjectConfig, last.type) # NoPath
      /\ last.uri # NoPath => ConfiguredRootOf(ProjectConfig, last.uri) # NoPath )
    => LET tree == getChildrenRoot(fs, cfg)
           rel == IF last.uri = NoPath THEN <<>>
                  ELSE relative(ConfiguredRootOf(ProjectConfig, last.uri), ElementDir)
       IN  /\ tree.err = "none"
           /\ \E k \in NodesNamed(tree.nodes, SectionOf(last.type)) :
                 \E n \in NodeAt(tree.nodes[k].children, Append(rel, last.answer)) :
                     ~n.collapsible /\ ~n.hasChildren

\* the sections of a configuration and the physical roots each merges
SectionRoots(json) ==
    { <<"Combined source", ConfiguredRoot(json, "source")>>,
      <<"Combined source", ConfiguredRoot(json, "resource")>>,
      <<"Includes", ConfiguredRoot(json, "include")>> }

\* the tree rebuilt from configuration file q has a node at the logical
\* position of path uri
NodeAtPositionOf(q, uri) ==
    LET tree == ReadConfig(fs, cfg, q)
    IN  \E x \in SectionRoots(cfg[q]) :
            /\ Under(uri, x[2])
            /\ \E k \in NodesNamed(tree.nodes, x[1]) :
                   NodeAt(tree.nodes[k].children, relative(x[2], uri)) # {}

\* a root of a section of configuration q holds an entry at the logical
\* position of path uri
EntryAtPositionOf(q, uri) ==
    \E x \in SectionRoots(cfg[q]), y \in SectionRoots(cfg[q]) :
        /\ Under(uri, x[2])
        /\ y[1] = x[1]
        /\ y[2] # NoPath
        /\ join(y[2], relative(x[2], uri)) \in DOMAIN fs

DeletedDirectory == last.op = "delete" /\ last.outcome = "deleted" /\ last.isDir

\* C5 as claimed: after a confirmed delete of a directory node, the directory
\* and its descendants are gone from disk and the rebuilt tree has no node at
\* that logical position, also for a node merged from several roots.
C5_DeletedNodeLeavesTree ==
    DeletedDirectory
    => /\ \A q \in DOMAIN fs : ~startsWith(q, last.uri)
       /\ \A q \in DOMAIN cfg : ~NodeAtPositionOf(q, last.uri)

\* C5 as amended: after a confirmed delete of a directory node, the directory at
\* the node's canonical path and its descendants are gone from disk, no node of
\* the rebuilt tree has a canonical path at or under it, and no node is left at
\* that logical position unless another root of the section holds an entry there.
C5_DeleteRemovesCanonicalDirectory ==
    DeletedDirectory
    => /\ \A q \in DOMAIN fs : ~startsWith(q, last.uri)
       /\ \A q \in DOMAIN cfg :
             /\ \A n \in NodeSet(ReadConfig(fs, cfg, q).nodes) :
                   ~(n.resourceUri # NoPath /\ startsWith(n.resourceUri, last.uri))
             /\ ~EntryAtPositionOf(q, last.uri) => ~NodeAtPositionOf(q, last.uri)

\* a merged directory node that held a file was deleted, and the rebuilt tree
\* still shows a node of that name, now at the other root
C5_Witness ==
    /\ DeletedDirectory
    /\ last.uri = <<"web-src", "a">>
    /\ <<"res", "a">> \in DOMAIN fs
    /\ \E q \in DOMAIN cfg : NodeAtPositionOf(q, last.uri)

\* a command's prompt was answered in this step
Answered == nCmds' = nCmds /\ pending' # pending

\* C9 as claimed: a command aborted by a failing filesystem call leaves the
\* disk as it was.
C9_AbortLeavesDisk ==
    [][ (Answered /\ last'.outcome \in {"ENOENT", "EMKDIR", "EWRITE"}) => fs' = fs ]_vars

\* C9 as amended: a command aborted by a failing filesystem call fires no
\* refresh; when the stat or the creation of the directory chain fails the disk
\* is as it was; when the file write fails, the disk differs at most by the
\* directories of the target chain that were created before the write.
C9_AbortLeavesDiskButForCreatedDirectories ==
    [][ (Answered /\ last'.outcome \in {"ENOENT", "EMKDIR", "EWRITE"})
        => /\ refreshCount' = refreshCount
           /\ last'.outcome \in {"ENOENT", "EMKDIR"} => fs' = fs
           /\ last'.outcome = "EWRITE"
                 => /\ \A q \in DOMAIN fs : q \in DOMAIN fs' /\ fs'[q] = fs[q]
                    /\ \A q \in DOMAIN fs' \ DOMAIN fs :
                          fs'[q] = "dir" /\ startsWith(dirname(last'.target), q) ]_vars

\* a create command made the directory include/a for its target and then failed
\* to write the file: the directory is on disk, the file is not, no refresh fired
C9_Witness ==
    /\ last.op = "create"
    /\ last.outcome = "EWRITE"
    /\ dirname(last.target) = <<"include", "a">>
    /\ <<"include", "a">> \in DOMAIN fs
    /\ last.target \notin DOMAIN fs
    /\ refreshCount = 0

\* C10: a command whose prompt returns no file name, or anything but 'Delete',
\* and a delete invoked without a node that has a path, creates and removes
\* nothing and fires no refresh.
C10_CancelIsNoOp ==
    [][ (last'.op \in {"create", "delete"} /\ last'.answer \in {"", "undefined"})
        => fs' = fs /\ refreshCount' = refreshCount ]_vars

\* a delete was declined while the node it was invoked on is still on disk
C10_Witness ==
    /\ last.op = "delete"
    /\ last.outcome = "cancelled"
    /\ last.answer = "undefined"
    /\ pending = EmptyBag
    /\ refreshCount = 0

====
